---- MODULE Spec2Model ----
(***************************************************************************)
(* Local chat gateway of the Friend backend: the chat router               *)
(* (backend/routers/chat_local.py) driving the Ollama provider             *)
(* (backend/services/llm_provider.py, backend/services/ollama_service.py). *)
(*                                                                         *)
(* Requests run as coroutines on one event loop: the code between two      *)
(* awaits runs without interruption, so every action below is the code     *)
(* from one suspension point to the next.                                  *)
(***************************************************************************)
EXTENDS Integers, Sequences, FiniteSets, TLC

\* ------------------------------------------------------------------------
\* Bounds of the model
\* ------------------------------------------------------------------------
\* frames with text the backend may put on one streamed reply
MaxFrames == 2
\* lines of the backend reply put through the service-level run
MaxReplyLines == 3
\* calls made on the provider factory in one run
MaxCalls == 3
\* texts in one list handed to embeddings()
MaxTexts == 2
\* health_check() calls in one run of the service calls
MaxProbes == 2
\* largest token counter the backend may report
MaxCount == 1
\* messages in the list handed to one chat_completion call
MaxMessages == 2
\* largest token limit a caller may pass
MaxTokens == 1
\* calls made on one OpenAIProvider
MaxUses == 3

\* the request flows, which may be in flight together
Requests == {1, 2}

\* texts a caller may send
Texts == {"hi", "yo"}
\* text fragments the backend may put in one frame
Fragments == {"Hel", "lo"}

\* ------------------------------------------------------------------------
\* Program constants
\* ------------------------------------------------------------------------
\* chat_session.messages[-10:]
HistoryWindow == 10
\* [0.0] * 384, the zero vector appended when an embedding request fails
EmbeddingDimension == 384
\* temperature: float = 0.7, counted in tenths
DefaultTemperature == 7
\* system prompt built from get_prompt_memories(uid)
SystemPrompt == "You are 'Omi'"
\* fallback reply of process_chat_message_local
SendFallback == "I'm having trouble processing your request locally. Please check that Ollama is running."
\* fallback notice of stream_chat_message_local
StreamFallback == "I'm having trouble streaming the response. Please check Ollama."

\* ------------------------------------------------------------------------
\* State
\* ------------------------------------------------------------------------
VARIABLES
    ollamaUp,       \* the Ollama daemon answers requests
    db,             \* session store: the sessions held for the user and app
    pc,             \* pc[r]: suspension point of request r
    endpoint,       \* endpoint[r]: "send" | "stream" | "none"
    text,           \* text[r]: data.text
    chat_session,   \* chat_session[r]: the handler's local ChatSession
    ops,            \* ops[r]: store and backend calls issued by r, in order
    messages,       \* messages[r]: message list handed to the provider
    emitted,        \* emitted[r]: non-empty contents of the frames read
    full_response,  \* full_response[r]: accumulator of generate()
    chunk,          \* chunk[r]: chunk yielded by generate(), not yet sent
    received,       \* received[r]: chunks the caller has received
    failed,         \* failed[r]: the provider's call or stream raised
    httpOpen,       \* httpOpen[r]: the backend HTTP stream is open
    response,       \* response[r]: status and reply returned to the caller
    probe,          \* probe[r]: answer of the health check awaited by r
    reply,          \* service run: the lines of one backend reply
    pos,            \* service run: lines of reply read so far
    deltas,         \* service run: deltas yielded by the streamed call
    svc,            \* service run: state of the streamed call
    completion,     \* service run: result of the non-streamed call
    providers,      \* LLMProviderFactory._providers: name -> provider class
    LLM_PROVIDER,   \* the environment variable LLM_PROVIDER
    instances,      \* provider objects constructed so far: their classes
    default_provider, \* _default_provider: 0 (None) or an index of instances
    calls,          \* factory calls made so far, with their outcomes
    embInput,       \* embeddings(): the text argument
    embPos,         \* embeddings(): texts handled so far
    embeddings,     \* embeddings(): the list built by the loop
    embReplies,     \* embeddings(): outcome of each request, in order
    embState,       \* embeddings(): "off" | "running" | "returned"
    embResult,      \* embeddings(): the value returned
    health,         \* health_check(): calls, probes sent, last outcome
    args,           \* chat_completion(): the caller's arguments
    payload,        \* chat_completion(): the JSON body built for /api/chat
    callState,      \* chat_completion(): where the call and its stream are
    callOutcome,    \* chat_completion(): what the backend request came to
    hcState,        \* GET /v1/chat/local/health: where the handler is
    hcOps,          \* GET /v1/chat/local/health: provider calls made, in order
    hcReply,        \* GET /v1/chat/local/health: what the caller gets
    available,      \* OpenAIProvider.available
    uses,           \* OpenAIProvider: method calls made, with their outcomes
    dry_run,        \* TelemetryRemover.dry_run
    fs,             \* the files under the repository root
    fs0,            \* the files as they were when run() was called
    stage,          \* TelemetryRemover.run: steps done
    modified_files, \* TelemetryRemover.modified_files
    removed_count   \* TelemetryRemover.removed_count

\* state of the request flows
chatVars == <<ollamaUp, db, pc, endpoint, text, chat_session, ops, messages,
              emitted, full_response, chunk, received, failed, httpOpen,
              response, probe>>

\* state of the service-level run
svcVars == <<reply, pos, deltas, svc, completion>>

\* state of the provider factory
facVars == <<providers, LLM_PROVIDER, instances, default_provider, calls>>

\* state of the Ollama service calls outside the chat flows
ollVars == <<embInput, embPos, embeddings, embReplies, embState, embResult,
             health>>

\* state of one chat_completion call on the Ollama provider
callVars == <<args, payload, callState, callOutcome>>

\* state of the health endpoint of the router
hcVars == <<hcState, hcOps, hcReply>>

\* state of an OpenAI provider
oaVars == <<available, uses>>

\* state of the telemetry removal script
fsVars == <<dry_run, fs, fs0, stage, modified_files, removed_count>>

\* what the chat flows, the service run, the factory and the embedding and
\* health calls leave alone
restVars == <<callVars, hcVars, oaVars, fsVars>>

vars == <<chatVars, svcVars, facVars, ollVars, restVars>>

\* ------------------------------------------------------------------------
\* Data
\* ------------------------------------------------------------------------
\* Message(id, sender, text) of models.chat
Message(id, sender, txt) == [id |-> id, sender |-> sender, text |-> txt]

\* get_chat_session returned None
NoSession == [id |-> 0, messages |-> <<>>]

\* ChatSession(id=uuid4(), ...): a fresh session without messages
ChatSession(id) == [id |-> id, messages |-> <<>>]

NoResponse == [status |-> 0, text |-> ""]

\* A token counter of the reply body (prompt_eval_count, eval_count): the
\* key is absent, or present with the JSON value null, or with a number
AbsentCounter == [present |-> FALSE, null |-> FALSE, value |-> 0]
NullCounter == [present |-> TRUE, null |-> TRUE, value |-> 0]
Counter(n) == [present |-> TRUE, null |-> FALSE, value |-> n]

\* counters the backend may put in a reply body
CounterValues == {AbsentCounter, NullCounter} \cup {Counter(n) : n \in 0..MaxCount}

\* the reply body with the counters p and e added to it
WithCounters(body, p, e) ==
    [kind |-> body.kind, hasMessage |-> body.hasMessage,
     hasContent |-> body.hasContent, content |-> body.content,
     done |-> body.done, prompt_eval_count |-> p, eval_count |-> e]

\* the counter a reply body holds under key
CounterOf(body, key) ==
    IF key \in DOMAIN body THEN body[key] ELSE AbsentCounter

\* the usage dict before any completion
NoUsage ==
    [raised |-> FALSE, prompt_tokens |-> 0, completion_tokens |-> 0,
     total_tokens |-> 0]

\* no completion call made yet
NoCompletion ==
    [called |-> FALSE, raised |-> FALSE, content |-> "", usage |-> NoUsage,
     prompt_eval_count |-> AbsentCounter, eval_count |-> AbsentCounter]

\* One line of the backend's reply body, before parsing.
\*   kind "empty"      an empty line
\*   kind "malformed"  text that is not JSON
\*   kind "nonobject"  JSON that is not an object (a number, a list, null)
\*   kind "object"     a JSON object; hasMessage/hasContent tell which keys
\*                     it carries
Line(kind, hasMessage, hasContent, content, done) ==
    [kind |-> kind, hasMessage |-> hasMessage, hasContent |-> hasContent,
     content |-> content, done |-> done]

EmptyLine == Line("empty", FALSE, FALSE, "", FALSE)
BadLine == Line("malformed", FALSE, FALSE, "", FALSE)
NonObjectLine == Line("nonobject", FALSE, FALSE, "", FALSE)
TextLine(c) == Line("object", TRUE, TRUE, c, FALSE)
DoneLine == Line("object", TRUE, TRUE, "", TRUE)
BareLine == Line("object", FALSE, FALSE, "", FALSE)

\* lines the backend may send on a streamed reply
StreamLines ==
    {EmptyLine, BadLine, NonObjectLine, DoneLine, BareLine}
        \cup {TextLine(c) : c \in Fragments}

\* bodies the backend may send as a non-streamed reply
ReplyBodies ==
    {BadLine, NonObjectLine, BareLine} \cup {TextLine(c) : c \in Fragments}

\* s[-n:]
LastN(s, n) == IF Len(s) <= n THEN s ELSE SubSeq(s, Len(s) - n + 1, Len(s))

\* ------------------------------------------------------------------------
\* Session store (database.chat)
\* ------------------------------------------------------------------------
get_chat_session(store) == IF store = <<>> THEN NoSession ELSE store[1]

create_chat_session(store, session) == Append(store, session)

update_chat_session(store, session) ==
    [i \in 1..Len(store) |->
        IF store[i].id = session.id THEN session ELSE store[i]]

\* ------------------------------------------------------------------------
\* Ollama service
\* ------------------------------------------------------------------------
\* outcomes of GET /api/tags
ProbeOutcomes(up) ==
    IF up THEN {"200", "204", "500"} ELSE {"error", "timeout"}

\* OllamaService.health_check
health_check(outcome) == outcome = "200"

\* OllamaService._format_chat_response: content of choices[0].message
format_chat_response(body) ==
    IF body.hasMessage /\ body.hasContent THEN body.content ELSE ""

\* ollama_response.get(key, 0): None when the key is there with null
dict_get(counter, default) ==
    IF counter.present THEN [null |-> counter.null, value |-> counter.value]
    ELSE [null |-> FALSE, value |-> default]

\* OllamaService._format_chat_response: the usage dict; adding None to a
\* number raises TypeError while the dict is built
format_chat_usage(body) ==
    LET prompt == dict_get(CounterOf(body, "prompt_eval_count"), 0)
        eval == dict_get(CounterOf(body, "eval_count"), 0)
    IN  IF prompt.null \/ eval.null
        THEN [raised |-> TRUE, prompt_tokens |-> 0, completion_tokens |-> 0,
              total_tokens |-> 0]
        ELSE [raised |-> FALSE, prompt_tokens |-> prompt.value,
              completion_tokens |-> eval.value,
              total_tokens |-> prompt.value + eval.value]

\* OllamaService.chat_completion, stream=False, as seen by its caller:
\* "raise" or the content and usage of the formatted completion
chat_completion(outcome, body) ==
    IF outcome # "200"
        THEN [raised |-> TRUE, content |-> "", usage |-> NoUsage]
    ELSE IF body.kind # "object"
        THEN [raised |-> TRUE, content |-> "", usage |-> NoUsage]
    ELSE IF format_chat_usage(body).raised
        THEN [raised |-> TRUE, content |-> "", usage |-> format_chat_usage(body)]
    ELSE [raised |-> FALSE, content |-> format_chat_response(body),
          usage |-> format_chat_usage(body)]

\* the streamed call reading the text from the key of /api/generate
\* ("response") instead of message.content
stream_chat_completion_response_key(line) ==
    IF line.kind = "empty" THEN [act |-> "skip", content |-> "", finish |-> FALSE]
    ELSE IF line.kind = "malformed"
        THEN [act |-> "skip", content |-> "", finish |-> FALSE]
    ELSE IF line.kind = "nonobject"
        THEN [act |-> "raise", content |-> "", finish |-> FALSE]
    ELSE [act |-> "yield", content |-> "", finish |-> line.done]

\* OllamaService._stream_chat_completion, one line of response.aiter_lines():
\* "skip" (no delta), "raise" or "yield" with the delta's content
stream_chat_completion(line) ==
    IF line.kind = "empty" THEN [act |-> "skip", content |-> "", finish |-> FALSE]
    ELSE IF line.kind = "malformed"
        THEN [act |-> "skip", content |-> "", finish |-> FALSE]
    ELSE IF line.kind = "nonobject"
        THEN [act |-> "raise", content |-> "", finish |-> FALSE]
    ELSE [act |-> "yield",
          content |-> IF line.hasMessage /\ line.hasContent
                         THEN line.content ELSE "",
          finish |-> line.done]

\* ------------------------------------------------------------------------
\* Chat router
\* ------------------------------------------------------------------------
\* role of a stored message in the prompt
Role(msg) == IF msg.sender = "human" THEN "user" ELSE "assistant"

\* message list built by process_chat_message_local and
\* stream_chat_message_local from chat_session.messages and the new text
build_messages(history, message) ==
    LET recent == LastN(history, HistoryWindow)
    IN  <<[role |-> "system", content |-> SystemPrompt]>>
        \o [i \in 1..Len(recent) |->
               [role |-> Role(recent[i]), content |-> recent[i].text]]
        \o <<[role |-> "user", content |-> message]>>

\* the gate with its test left out: every request goes on
HealthGateOpen(ok) == TRUE

\* the health gate of both endpoints: TRUE when the request goes on
HealthGate(ok) == ok

\* a session created whether or not one is stored
GetOrCreateAlways(store, r) ==
    [session |-> ChatSession(r),
     store |-> create_chat_session(store, ChatSession(r)),
     ops |-> <<"get", "create">>]

\* "Get or create chat session": the session and the store afterwards
GetOrCreate(store, r) ==
    LET found == get_chat_session(store)
    IN  IF found = NoSession
        THEN [session |-> ChatSession(r),
              store |-> create_chat_session(store, ChatSession(r)),
              ops |-> <<"get", "create">>]
        ELSE [session |-> found, store |-> store, ops |-> <<"get">>]

\* ------------------------------------------------------------------------
\* Provider factory (llm_provider.py)
\* ------------------------------------------------------------------------
\* LLMProviderFactory._providers as the class body leaves it
BuiltinProviders ==
    [n \in {"ollama", "openai"} |->
        IF n = "ollama" THEN "OllamaProvider" ELSE "OpenAIProvider"]

\* LLM_PROVIDER is not in the environment
Unset == "<unset>"

\* os.getenv(name, default)
getenv(value, default) == IF value = Unset THEN default ELSE value

\* the factory before any call; the environment is that of the process
InitIdleFactory ==
    /\ providers = BuiltinProviders
    /\ LLM_PROVIDER = Unset
    /\ instances = <<>>
    /\ default_provider = 0
    /\ calls = <<>>

\* embeddings() result before any call
NoResult == [wrapped |-> TRUE, vectors |-> <<>>]

\* the text argument before any call
NoInput == [single |-> FALSE, texts |-> <<>>]

\* health_check() before any call
NoHealth == [calls |-> 0, gets |-> 0, outcome |-> "", result |-> FALSE]

\* the service before any embeddings() or health_check() call
InitIdleOllama ==
    /\ embInput = NoInput
    /\ embPos = 0
    /\ embeddings = <<>>
    /\ embReplies = <<>>
    /\ embState = "off"
    /\ embResult = NoResult
    /\ health = NoHealth

\* ------------------------------------------------------------------------
\* Idle state of the provider call, the health endpoint, the OpenAI provider
\* and the telemetry removal script
\* ------------------------------------------------------------------------
\* an optional argument the caller left out (None), by type
OmittedText == [given |-> FALSE, value |-> ""]
OmittedNumber == [given |-> FALSE, value |-> 0]
\* an optional argument the caller gave
Given(v) == [given |-> TRUE, value |-> v]

\* chat_completion() not called yet
NoArgs ==
    [messages |-> <<>>, model |-> OmittedText, temperature |-> OmittedNumber,
     max_tokens |-> OmittedNumber, stream |-> FALSE,
     system_prompt |-> OmittedText]

\* no payload built yet
NoPayload ==
    [model |-> "", messages |-> <<>>, temperature |-> 0, stream |-> FALSE,
     options |-> OmittedNumber]

\* the health endpoint has not answered
NoReply == [code |-> 0, status |-> "", provider |-> "", models |-> <<>>]

\* paths the telemetry removal script reads or writes
Paths ==
    {"app/pubspec.yaml", "app/lib/services/mixpanel.dart",
     "app/lib/services/intercom.dart", "app/lib/services/instabug.dart",
     "app/lib/env/dev_env.dart", "app/lib/env/prod_env.dart",
     "app/lib/main.dart", "app/lib/pages/home.dart",
     "app/lib/services/privacy_analytics.dart", "app/lib/services"}

\* a path with nothing at it
NoFile == [exists |-> FALSE, content |-> {}]

\* no chat_completion call and no health request yet
InitIdleCall ==
    /\ args = NoArgs
    /\ payload = NoPayload
    /\ callState = "off"
    /\ callOutcome = ""
    /\ hcState = "off"
    /\ hcOps = <<>>
    /\ hcReply = NoReply

\* an OpenAIProvider nobody has used
InitIdleOpenAI ==
    /\ available = TRUE
    /\ uses = <<>>

\* the telemetry removal script has not been started
InitIdleFiles ==
    /\ dry_run = FALSE
    /\ fs = [p \in Paths |-> NoFile]
    /\ fs0 = [p \in Paths |-> NoFile]
    /\ stage = 0
    /\ modified_files = <<>>
    /\ removed_count = 0

InitIdleRest ==
    /\ InitIdleCall
    /\ InitIdleOpenAI
    /\ InitIdleFiles

\* the request flows before any request
InitChat ==
    /\ db = <<>>
    /\ pc = [r \in Requests |-> "idle"]
    /\ endpoint = [r \in Requests |-> "none"]
    /\ text = [r \in Requests |-> ""]
    /\ chat_session = [r \in Requests |-> NoSession]
    /\ ops = [r \in Requests |-> <<>>]
    /\ messages = [r \in Requests |-> <<>>]
    /\ emitted = [r \in Requests |-> <<>>]
    /\ full_response = [r \in Requests |-> ""]
    /\ chunk = [r \in Requests |-> ""]
    /\ received = [r \in Requests |-> <<>>]
    /\ failed = [r \in Requests |-> FALSE]
    /\ httpOpen = [r \in Requests |-> FALSE]
    /\ response = [r \in Requests |-> NoResponse]
    /\ probe = [r \in Requests |-> "none"]

\* no service-level call under way
InitIdleService ==
    /\ reply = <<>>
    /\ pos = 0
    /\ deltas = <<>>
    /\ svc = "off"
    /\ completion = NoCompletion

Init ==
    /\ ollamaUp \in BOOLEAN
    /\ InitChat
    /\ InitIdleService
    /\ InitIdleFactory
    /\ InitIdleOllama
    /\ InitIdleRest

\* the daemon starts or stops
BackendFlip ==
    /\ ollamaUp' = ~ollamaUp
    /\ UNCHANGED <<db, pc, endpoint, text, chat_session, ops, messages,
                   emitted, full_response, chunk, received, failed, httpOpen,
                   response, probe>>
    /\ UNCHANGED <<svcVars, facVars, ollVars, restVars>>

\* a request arrives at one of the two endpoints and awaits the health probe
Arrive(r) ==
    /\ pc[r] = "idle"
    /\ \E e \in {"send", "stream"}, t \in Texts :
          /\ endpoint' = [endpoint EXCEPT ![r] = e]
          /\ text' = [text EXCEPT ![r] = t]
    /\ pc' = [pc EXCEPT ![r] = "health"]
    /\ UNCHANGED <<ollamaUp, db, chat_session, ops, messages, emitted,
                   full_response, chunk, received, failed, httpOpen, response,
                   probe>>
    /\ UNCHANGED <<svcVars, facVars, ollVars, restVars>>

\* what the handler keeps of the probe's answer
Probed(ok) == IF ok THEN "healthy" ELSE "unavailable"

\* a handler that asks the caller to come again instead of failing
RejectAndRetry(r) ==
    /\ pc[r] = "health"
    /\ \E o \in ProbeOutcomes(ollamaUp) :
          /\ ~HealthGate(health_check(o))
          /\ probe' = [probe EXCEPT ![r] = Probed(health_check(o))]
    /\ pc' = [pc EXCEPT ![r] = "idle"]
    /\ response' = [response EXCEPT ![r] = [status |-> 503, text |-> ""]]
    /\ UNCHANGED <<ollamaUp, db, endpoint, text, chat_session, ops, messages,
                   emitted, full_response, chunk, received, failed, httpOpen>>
    /\ UNCHANGED <<svcVars, facVars, ollVars, restVars>>

\* the probe's answer does not pass the gate: HTTPException(503)
Reject(r) ==
    /\ pc[r] = "health"
    /\ \E o \in ProbeOutcomes(ollamaUp) :
          /\ ~HealthGate(health_check(o))
          /\ probe' = [probe EXCEPT ![r] = Probed(health_check(o))]
    /\ pc' = [pc EXCEPT ![r] = "rejected"]
    /\ response' = [response EXCEPT ![r] = [status |-> 503, text |-> ""]]
    /\ UNCHANGED <<ollamaUp, db, endpoint, text, chat_session, ops, messages,
                   emitted, full_response, chunk, received, failed, httpOpen>>
    /\ UNCHANGED <<svcVars, facVars, ollVars, restVars>>

\* send_message_local from the probe's answer to the await of the
\* completion call inside process_chat_message_local
SendDispatch(r) ==
    /\ pc[r] = "health"
    /\ endpoint[r] = "send"
    /\ \E o \in ProbeOutcomes(ollamaUp) :
          /\ HealthGate(health_check(o))
          /\ probe' = [probe EXCEPT ![r] = Probed(health_check(o))]
    /\ LET got == GetOrCreate(db, r)
       IN  /\ db' = got.store
           /\ chat_session' = [chat_session EXCEPT ![r] = got.session]
           /\ messages' = [messages EXCEPT
                  ![r] = build_messages(got.session.messages, text[r])]
           /\ ops' = [ops EXCEPT ![r] = got.ops \o <<"complete">>]
    /\ pc' = [pc EXCEPT ![r] = "await_complete"]
    /\ UNCHANGED <<ollamaUp, endpoint, text, emitted, full_response, chunk,
                   received, failed, httpOpen, response>>
    /\ UNCHANGED <<svcVars, facVars, ollVars, restVars>>

\* process_chat_message_local without the fallback of its except clause
process_chat_message_local_no_fallback(result) == result.content

\* reply text of process_chat_message_local: the completion's content, or
\* the fallback when the call raised
process_chat_message_local(result) ==
    IF result.raised THEN SendFallback ELSE result.content

\* "Save messages" of send_message_local
SendSave(session, user_message, ai_message) ==
    [session EXCEPT !.messages = @ \o <<user_message, ai_message>>]

\* outcomes of POST /api/chat
PostOutcomes(up) ==
    IF up THEN {"200", "500", "timeout"} ELSE {"error", "timeout"}

\* send_message_local from the completion call's return to the response
SendComplete(r) ==
    /\ pc[r] = "await_complete"
    /\ \E o \in PostOutcomes(ollamaUp), body \in ReplyBodies :
          LET result == chat_completion(o, body)
              ai_response == process_chat_message_local(result)
              saved == SendSave(chat_session[r],
                                Message(r, "human", text[r]),
                                Message(r, "ai", ai_response))
          IN  /\ failed' = [failed EXCEPT ![r] = result.raised]
              /\ chat_session' = [chat_session EXCEPT ![r] = saved]
              /\ db' = update_chat_session(db, saved)
              /\ response' = [response EXCEPT
                     ![r] = [status |-> 200, text |-> ai_response]]
    /\ ops' = [ops EXCEPT ![r] = @ \o <<"update">>]
    /\ pc' = [pc EXCEPT ![r] = "done"]
    /\ UNCHANGED <<ollamaUp, endpoint, text, messages, emitted, full_response,
                   chunk, received, httpOpen, probe>>
    /\ UNCHANGED <<svcVars, facVars, ollVars, restVars>>

\* the user message not appended before the stream starts
StreamSaveUserSkipped(session, user_message) == session

\* "Save user message" of send_message_stream_local
StreamSaveUser(session, user_message) ==
    [session EXCEPT !.messages = Append(@, user_message)]

\* send_message_stream_local from the probe's answer to the return of the
\* StreamingResponse
StreamAccept(r) ==
    /\ pc[r] = "health"
    /\ endpoint[r] = "stream"
    /\ \E o \in ProbeOutcomes(ollamaUp) :
          /\ HealthGate(health_check(o))
          /\ probe' = [probe EXCEPT ![r] = Probed(health_check(o))]
    /\ LET got == GetOrCreate(db, r)
           saved == StreamSaveUser(got.session, Message(r, "human", text[r]))
       IN  /\ chat_session' = [chat_session EXCEPT ![r] = saved]
           /\ db' = update_chat_session(got.store, saved)
           /\ ops' = [ops EXCEPT ![r] = got.ops \o <<"update">>]
    /\ response' = [response EXCEPT ![r] = [status |-> 200, text |-> ""]]
    /\ pc' = [pc EXCEPT ![r] = "respond"]
    /\ UNCHANGED <<ollamaUp, endpoint, text, messages, emitted, full_response,
                   chunk, received, failed, httpOpen>>
    /\ UNCHANGED <<svcVars, facVars, ollVars, restVars>>

\* generate() is started: stream_chat_message_local builds the message list
\* from the handler's chat_session and opens the backend stream
StreamOpen(r) ==
    /\ pc[r] = "respond"
    /\ messages' = [messages EXCEPT
           ![r] = build_messages(chat_session[r].messages, text[r])]
    /\ ops' = [ops EXCEPT ![r] = @ \o <<"stream">>]
    /\ httpOpen' = [httpOpen EXCEPT ![r] = TRUE]
    /\ pc' = [pc EXCEPT ![r] = "streaming"]
    /\ UNCHANGED <<ollamaUp, db, endpoint, text, chat_session, emitted,
                   full_response, chunk, received, failed, response, probe>>
    /\ UNCHANGED <<svcVars, facVars, ollVars, restVars>>

\* a transport error, a timeout or a non-2xx status on the open stream, as
\* _stream_chat_completion passes it on
TransportError == [act |-> "raise", content |-> "", finish |-> FALSE]

\* the except clause ending the stream without a notice
stream_chat_message_local_silent(step) ==
    IF step.act = "raise"
        THEN [yields |-> FALSE, chunk |-> "", failed |-> TRUE]
    ELSE IF step.act = "yield" /\ step.content # ""
        THEN [yields |-> TRUE, chunk |-> step.content, failed |-> FALSE]
    ELSE [yields |-> FALSE, chunk |-> "", failed |-> FALSE]

\* stream_chat_message_local without `if content:`
stream_chat_message_local_unfiltered(step) ==
    IF step.act = "raise"
        THEN [yields |-> TRUE, chunk |-> StreamFallback, failed |-> TRUE]
    ELSE [yields |-> step.act = "yield", chunk |-> step.content,
          failed |-> FALSE]

\* stream_chat_message_local, one step of the provider's stream: the chunk it
\* yields, if any, and whether it got there through its except clause
stream_chat_message_local(step) ==
    IF step.act = "raise"
        THEN [yields |-> TRUE, chunk |-> StreamFallback, failed |-> TRUE]
    ELSE IF step.act = "yield" /\ step.content # ""
        THEN [yields |-> TRUE, chunk |-> step.content, failed |-> FALSE]
    ELSE [yields |-> FALSE, chunk |-> "", failed |-> FALSE]

\* full_response = chunk
AccumulateLast(full, c) == c

\* full_response += chunk
Accumulate(full, c) == full \o c

\* generate() resumed with the outcome of one step of the provider's stream,
\* up to its next yield
Generate(r, step) ==
    LET out == stream_chat_message_local(step)
    IN  /\ failed' = [failed EXCEPT ![r] = out.failed]
        /\ httpOpen' = [httpOpen EXCEPT ![r] = ~out.failed]
        /\ IF out.yields
              THEN /\ full_response' = [full_response EXCEPT
                          ![r] = Accumulate(@, out.chunk)]
                   /\ chunk' = [chunk EXCEPT ![r] = out.chunk]
                   /\ pc' = [pc EXCEPT ![r] = "sending"]
              ELSE UNCHANGED <<full_response, chunk, pc>>

\* the text a line of the backend's reply carries
LineText(line) ==
    IF line.kind = "object" /\ line.hasMessage /\ line.hasContent
        THEN line.content ELSE ""

\* the next line of the backend's reply arrives
StreamRead(r) ==
    /\ pc[r] = "streaming"
    /\ ~failed[r]
    /\ ollamaUp
    /\ Len(emitted[r]) < MaxFrames
    /\ \E line \in StreamLines :
          /\ Generate(r, stream_chat_completion(line))
          /\ emitted' = [emitted EXCEPT
                 ![r] = IF LineText(line) # ""
                           THEN Append(@, LineText(line)) ELSE @]
    /\ UNCHANGED <<ollamaUp, db, endpoint, text, chat_session, ops, messages,
                   received, response, probe>>
    /\ UNCHANGED <<svcVars, facVars, ollVars, restVars>>

\* the backend stream fails: connection refused or lost, timeout, HTTP error
StreamFail(r) ==
    /\ pc[r] = "streaming"
    /\ ~failed[r]
    /\ Generate(r, TransportError)
    /\ UNCHANGED <<ollamaUp, db, endpoint, text, chat_session, ops, messages,
                   emitted, received, response, probe>>
    /\ UNCHANGED <<svcVars, facVars, ollVars, restVars>>

\* chunks held back and sent as one buffer
ForwardBuffered(got, c) ==
    IF got = <<>> THEN <<c>> ELSE <<got[1] \o c>>

\* yield chunk: what the caller has received after the chunk is sent
Forward(got, c) == Append(got, c)

\* the StreamingResponse sends the yielded chunk to the caller
StreamSend(r) ==
    /\ pc[r] = "sending"
    /\ received' = [received EXCEPT ![r] = Forward(@, chunk[r])]
    /\ chunk' = [chunk EXCEPT ![r] = ""]
    /\ pc' = [pc EXCEPT ![r] = "streaming"]
    /\ UNCHANGED <<ollamaUp, db, endpoint, text, chat_session, ops, messages,
                   emitted, full_response, failed, httpOpen, response, probe>>
    /\ UNCHANGED <<svcVars, facVars, ollVars, restVars>>

\* "Save AI message after streaming completes"
StreamSaveAssistant(session, ai_message) ==
    [session EXCEPT !.messages = Append(@, ai_message)]

\* the provider's stream is exhausted (the backend closed the reply, or the
\* fallback notice was the last chunk): generate() saves the AI message
StreamFinish(r) ==
    /\ pc[r] = "streaming"
    /\ LET saved == StreamSaveAssistant(chat_session[r],
                                        Message(r, "ai", full_response[r]))
       IN  /\ chat_session' = [chat_session EXCEPT ![r] = saved]
           /\ db' = update_chat_session(db, saved)
    /\ ops' = [ops EXCEPT ![r] = @ \o <<"update">>]
    /\ httpOpen' = [httpOpen EXCEPT ![r] = FALSE]
    /\ pc' = [pc EXCEPT ![r] = "done"]
    /\ UNCHANGED <<ollamaUp, endpoint, text, messages, emitted, full_response,
                   chunk, received, failed, response, probe>>
    /\ UNCHANGED <<svcVars, facVars, ollVars, restVars>>

\* the caller disconnects: generate() is cancelled or closed at its yield
\* (CancelledError / GeneratorExit), which unwinds the async with of
\* _stream_chat_completion and runs nothing after the loop of generate()
Abandon(r) ==
    /\ pc[r] \in {"respond", "streaming", "sending"}
    /\ httpOpen' = [httpOpen EXCEPT ![r] = FALSE]
    /\ pc' = [pc EXCEPT ![r] = "abandoned"]
    /\ UNCHANGED <<ollamaUp, db, endpoint, text, chat_session, ops, messages,
                   emitted, full_response, chunk, received, failed, response,
                   probe>>
    /\ UNCHANGED <<svcVars, facVars, ollVars, restVars>>

Next ==
    \/ BackendFlip
    \/ \E r \in Requests : Arrive(r)
    \/ \E r \in Requests : Reject(r)
    \/ \E r \in Requests : SendDispatch(r)
    \/ \E r \in Requests : SendComplete(r)
    \/ \E r \in Requests : StreamAccept(r)
    \/ \E r \in Requests : StreamOpen(r)
    \/ \E r \in Requests : StreamRead(r)
    \/ \E r \in Requests : StreamFail(r)
    \/ \E r \in Requests : StreamSend(r)
    \/ \E r \in Requests : StreamFinish(r)
    \/ \E r \in Requests : Abandon(r)

Spec == Init /\ [][Next]_vars

\* a step of request r that the event loop and the backend take for it:
\* every step but its arrival and the caller's disconnect
Step(r) ==
    \/ Reject(r)
    \/ SendDispatch(r)
    \/ SendComplete(r)
    \/ StreamAccept(r)
    \/ StreamOpen(r)
    \/ StreamRead(r)
    \/ StreamFail(r)
    \/ StreamSend(r)
    \/ StreamFinish(r)

\* The request flows when every awaited call returns or fails and the
\* caller of a streamed reply takes each chunk sent to it: the event loop
\* resumes every coroutine whose await is over, so a request that can take a
\* step is not left waiting for ever.
SpecLive == Spec /\ \A r \in Requests : WF_vars(Step(r))

\* ------------------------------------------------------------------------
\* Service level: one backend reply put through the streamed call
\* (_stream_chat_completion) and the non-streamed call (chat_completion with
\* _format_chat_response)
\* ------------------------------------------------------------------------
\* lines a backend reply may be made of
ServiceLines ==
    StreamLines \cup {Line("object", TRUE, TRUE, "lo", TRUE),
                      Line("object", TRUE, FALSE, "", FALSE)}

BoundedSeq(S, n) == UNION {[1..k -> S] : k \in 0..n}

RECURSIVE Concat(_)
\* the strings of a sequence joined in order
Concat(ss) == IF ss = <<>> THEN "" ELSE Head(ss) \o Concat(Tail(ss))

\* The same reply as the backend delivers it when stream is false: one JSON
\* object whose message carries the whole text (the wire contract of
\* /api/chat); a reply with a line that is JSON but no object stays one.
Aggregate(lines) ==
    LET objs == SelectSeq(lines, LAMBDA l : l.kind = "object")
    IN  IF \E i \in 1..Len(lines) : lines[i].kind = "nonobject"
        THEN NonObjectLine
        ELSE Line("object",
                  \E i \in 1..Len(objs) : objs[i].hasMessage,
                  \E i \in 1..Len(objs) : objs[i].hasMessage /\ objs[i].hasContent,
                  Concat([i \in 1..Len(objs) |-> LineText(objs[i])]),
                  TRUE)

\* the chunk dict yielded for one step of the streamed call
Delta(step) ==
    [content |-> step.content,
     finish_reason |-> IF step.finish THEN "stop" ELSE "null"]

InitService ==
    /\ ollamaUp = TRUE
    /\ InitChat
    /\ reply \in BoundedSeq(ServiceLines, MaxReplyLines)
    /\ pos = 0
    /\ deltas = <<>>
    /\ svc = "open"
    /\ completion = NoCompletion
    /\ InitIdleFactory
    /\ InitIdleOllama
    /\ InitIdleRest

\* _stream_chat_completion takes the next line of response.aiter_lines()
ServiceRead ==
    /\ svc = "open"
    /\ pos < Len(reply)
    /\ LET step == stream_chat_completion(reply[pos + 1])
       IN  /\ deltas' = IF step.act = "yield"
                           THEN Append(deltas, Delta(step)) ELSE deltas
           /\ svc' = IF step.act = "raise" THEN "raised" ELSE svc
    /\ pos' = pos + 1
    /\ UNCHANGED <<reply, completion>>
    /\ UNCHANGED <<chatVars, facVars, ollVars, restVars>>

\* response.aiter_lines() is exhausted: the async with block is left
ServiceEnd ==
    /\ svc = "open"
    /\ pos = Len(reply)
    /\ svc' = "closed"
    /\ UNCHANGED <<reply, pos, deltas, completion>>
    /\ UNCHANGED <<chatVars, facVars, ollVars, restVars>>

\* chat_completion with stream = False on the same reply
ServiceComplete ==
    /\ svc # "off"
    /\ ~completion.called
    /\ \E p, e \in CounterValues :
          LET body == WithCounters(Aggregate(reply), p, e)
              result == chat_completion("200", body)
          IN  completion' = [called |-> TRUE, raised |-> result.raised,
                             content |-> result.content,
                             usage |-> result.usage,
                             prompt_eval_count |-> p, eval_count |-> e]
    /\ UNCHANGED <<reply, pos, deltas, svc>>
    /\ UNCHANGED <<chatVars, facVars, ollVars, restVars>>

NextService ==
    \/ ServiceRead
    \/ ServiceEnd
    \/ ServiceComplete

SpecService == InitService /\ [][NextService]_vars

\* ------------------------------------------------------------------------
\* Provider factory: register_provider, create_provider and the default
\* provider of llm_provider.py, called in any order
\* ------------------------------------------------------------------------
\* names a caller may pass to the factory; "" stands for no name (None)
ProviderNames == {"ollama", "openai", "custom", "bogus"}
\* names and classes a caller may register
RegisteredNames == {"ollama", "custom"}
RegisteredClasses == {"CustomProvider", "OllamaProvider"}
\* values of LLM_PROVIDER in the environment
EnvValues == {Unset, "openai", "bogus"}

\* a factory call as the log keeps it: the arguments, the state before, and
\* what the call did (raised, or returned instance ret of class cls; built
\* tells whether the call constructed ret)
Call(op, arg, cls, raised, ret, built) ==
    [op |-> op, arg |-> arg, cls |-> cls, raised |-> raised, ret |-> ret,
     built |-> built, env |-> LLM_PROVIDER, reg |-> providers,
     dflt |-> default_provider]

register_provider_keep(reg, name, provider_class) ==
    IF name \in DOMAIN reg THEN reg
    ELSE [n \in DOMAIN reg \cup {name} |-> provider_class]

\* cls._providers[name] = provider_class
register_provider(reg, name, provider_class) ==
    [n \in DOMAIN reg \cup {name} |->
        IF n = name THEN provider_class ELSE reg[n]]

provider_type_env_first(provider_type, env) ==
    IF env # Unset THEN env
    ELSE IF provider_type # "" THEN provider_type ELSE "ollama"

\* provider_type or os.getenv("LLM_PROVIDER", "ollama")
provider_type_or_env(provider_type, env) ==
    IF provider_type # "" THEN provider_type ELSE getenv(env, "ollama")

\* create_provider: ValueError for a name not in _providers, else the class
\* to construct
create_provider(reg, provider_type, env) ==
    LET name == provider_type_or_env(provider_type, env)
    IN  IF name \notin DOMAIN reg
        THEN [raised |-> TRUE, cls |-> ""]
        ELSE [raised |-> FALSE, cls |-> reg[name]]

is_none_always(p) == TRUE

\* _default_provider is None
is_none(p) == p = 0

InitFactory ==
    /\ ollamaUp = TRUE
    /\ InitChat
    /\ InitIdleService
    /\ InitIdleOllama
    /\ InitIdleRest
    /\ providers = BuiltinProviders
    /\ LLM_PROVIDER \in EnvValues
    /\ instances = <<>>
    /\ default_provider = 0
    /\ calls = <<>>

\* LLMProviderFactory.register_provider(name, provider_class)
Register(name, provider_class) ==
    /\ Len(calls) < MaxCalls
    /\ providers' = register_provider(providers, name, provider_class)
    /\ calls' = Append(calls,
                       Call("register", name, provider_class, FALSE, 0, FALSE))
    /\ UNCHANGED <<LLM_PROVIDER, instances, default_provider>>
    /\ UNCHANGED <<chatVars, svcVars, ollVars, restVars>>

\* LLMProviderFactory.create_provider(provider_type)
Create(provider_type) ==
    /\ Len(calls) < MaxCalls
    /\ LET made == create_provider(providers, provider_type, LLM_PROVIDER)
       IN  IF made.raised
           THEN /\ calls' = Append(calls, Call("create", provider_type, "",
                                               TRUE, 0, FALSE))
                /\ UNCHANGED instances
           ELSE /\ instances' = Append(instances, made.cls)
                /\ calls' = Append(calls, Call("create", provider_type,
                                               made.cls, FALSE,
                                               Len(instances) + 1, TRUE))
    /\ UNCHANGED <<providers, LLM_PROVIDER, default_provider>>
    /\ UNCHANGED <<chatVars, svcVars, ollVars, restVars>>

\* get_default_llm_provider()
GetDefault ==
    /\ Len(calls) < MaxCalls
    /\ IF is_none(default_provider)
       THEN LET made == create_provider(providers, "", LLM_PROVIDER)
            IN  IF made.raised
                THEN /\ calls' = Append(calls, Call("get_default", "", "",
                                                    TRUE, 0, FALSE))
                     /\ UNCHANGED <<instances, default_provider>>
                ELSE /\ instances' = Append(instances, made.cls)
                     /\ default_provider' = Len(instances) + 1
                     /\ calls' = Append(calls, Call("get_default", "",
                                                    made.cls, FALSE,
                                                    Len(instances) + 1, TRUE))
       ELSE /\ calls' = Append(calls,
                               Call("get_default", "",
                                    instances[default_provider], FALSE,
                                    default_provider, FALSE))
            /\ UNCHANGED <<instances, default_provider>>
    /\ UNCHANGED <<providers, LLM_PROVIDER>>
    /\ UNCHANGED <<chatVars, svcVars, ollVars, restVars>>

\* set_default_llm_provider(provider): an instance made before, or None
SetDefault(provider) ==
    /\ Len(calls) < MaxCalls
    /\ default_provider' = provider
    /\ calls' = Append(calls, Call("set_default", "", "", FALSE, provider,
                                   FALSE))
    /\ UNCHANGED <<providers, LLM_PROVIDER, instances>>
    /\ UNCHANGED <<chatVars, svcVars, ollVars, restVars>>

NextFactory ==
    \/ \E n \in RegisteredNames, c \in RegisteredClasses : Register(n, c)
    \/ \E n \in ProviderNames \cup {""} : Create(n)
    \/ GetDefault
    \/ \E p \in 0..Len(instances) : SetDefault(p)

SpecFactory == InitFactory /\ [][NextFactory]_vars

\* ------------------------------------------------------------------------
\* Ollama service calls outside the chat flows: embeddings() on one text
\* argument and health_check(), while the daemon starts and stops
\* ------------------------------------------------------------------------
\* what POST /api/embeddings may come to for one text: a reply with an
\* embedding, an error status, a body that is no JSON, a JSON object
\* without "embedding"; a transport error or a timeout
EmbedOutcomes(up) ==
    IF up THEN {"vector", "500", "malformed", "missing"}
    ELSE {"error", "timeout"}

\* the embedding the backend computes for a text
BackendEmbedding(t) == IF t = "hi" THEN <<1, 2>> ELSE <<3, 4>>

\* [0.0] * 384
ZeroVector == [i \in 1..EmbeddingDimension |-> 0]

\* the text arguments: one string, or a list of up to MaxTexts strings
EmbedInputs ==
    {[single |-> TRUE, texts |-> <<t>>] : t \in Texts}
        \cup {[single |-> FALSE, texts |-> ts] : ts \in BoundedSeq(Texts, MaxTexts)}

embedding_for_dropped(outcome, t) ==
    IF outcome = "vector" THEN BackendEmbedding(t) ELSE <<>>

\* one turn of the loop: what is appended to embeddings for text t
embedding_for(outcome, t) ==
    IF outcome = "vector" THEN BackendEmbedding(t)
    ELSE IF outcome = "missing" THEN <<>>
    ELSE ZeroVector

embeddings_return_list(single_input, vs) == [wrapped |-> TRUE, vectors |-> vs]

\* return embeddings[0] if single_input else embeddings
embeddings_return(single_input, vs) ==
    IF single_input THEN [wrapped |-> FALSE, vectors |-> <<vs[1]>>]
    ELSE [wrapped |-> TRUE, vectors |-> vs]

InitOllama ==
    /\ ollamaUp \in BOOLEAN
    /\ InitChat
    /\ InitIdleService
    /\ InitIdleFactory
    /\ InitIdleOllama
    /\ InitIdleRest

\* embeddings(text) is called
EmbedCall(input) ==
    /\ embState = "off"
    /\ embInput' = input
    /\ embState' = "running"
    /\ UNCHANGED <<embPos, embeddings, embReplies, embResult, health>>
    /\ UNCHANGED <<chatVars, svcVars, facVars, restVars>>

\* one turn of `for t in texts`: the awaited POST and the append
EmbedStep(outcome) ==
    /\ embState = "running"
    /\ embPos < Len(embInput.texts)
    /\ embeddings' = Append(embeddings,
                            embedding_for(outcome, embInput.texts[embPos + 1]))
    /\ embReplies' = Append(embReplies, outcome)
    /\ embPos' = embPos + 1
    /\ UNCHANGED <<embInput, embState, embResult, health>>
    /\ UNCHANGED <<chatVars, svcVars, facVars, restVars>>

\* the loop is over: embeddings() returns
EmbedReturn ==
    /\ embState = "running"
    /\ embPos = Len(embInput.texts)
    /\ embResult' = embeddings_return(embInput.single, embeddings)
    /\ embState' = "returned"
    /\ UNCHANGED <<embInput, embPos, embeddings, embReplies, health>>
    /\ UNCHANGED <<chatVars, svcVars, facVars, restVars>>

\* health_check(): one GET /api/tags and the answer made of its outcome
HealthCall(outcome) ==
    /\ health.calls < MaxProbes
    /\ health' = [calls |-> health.calls + 1, gets |-> health.gets + 1,
                  outcome |-> outcome, result |-> health_check(outcome)]
    /\ UNCHANGED <<embInput, embPos, embeddings, embReplies, embState,
                   embResult>>
    /\ UNCHANGED <<chatVars, svcVars, facVars, restVars>>

NextOllama ==
    \/ BackendFlip
    \/ \E input \in EmbedInputs : EmbedCall(input)
    \/ \E outcome \in EmbedOutcomes(ollamaUp) : EmbedStep(outcome)
    \/ EmbedReturn
    \/ \E outcome \in ProbeOutcomes(ollamaUp) : HealthCall(outcome)

SpecOllama == InitOllama /\ [][NextOllama]_vars

\* ------------------------------------------------------------------------
\* GET /v1/chat/local/health
\* ------------------------------------------------------------------------
\* OllamaService.list_models: the models /api/tags lists, [] on any failure
list_models(outcome) ==
    IF outcome = "200" THEN <<"llama3", "mistral">> ELSE <<>>

health_reply_always_healthy(is_healthy, models) ==
    [code |-> 200, status |-> "healthy", provider |-> "ollama",
     models |-> models]

\* the answer of the endpoint: the body of the 200, or HTTPException(503)
health_reply(is_healthy, models) ==
    IF is_healthy
        THEN [code |-> 200, status |-> "healthy", provider |-> "ollama",
              models |-> models]
    ELSE [code |-> 503, status |-> "Local LLM service is not available",
          provider |-> "", models |-> <<>>]

\* the endpoint is called and awaits llm_provider.health_check(); a failed
\* probe is answered with 503 at once
CheckProbe(outcome) ==
    /\ hcState \in {"off", "replied"}
    /\ health.calls < MaxProbes
    /\ health' = [calls |-> health.calls + 1, gets |-> health.gets + 1,
                  outcome |-> outcome, result |-> health_check(outcome)]
    /\ hcOps' = <<[op |-> "health_check", outcome |-> outcome]>>
    /\ IF health_check(outcome)
          THEN /\ hcState' = "listing"
               /\ hcReply' = NoReply
       ELSE /\ hcState' = "replied"
            /\ hcReply' = health_reply(FALSE, <<>>)
    /\ UNCHANGED <<embInput, embPos, embeddings, embReplies, embState,
                   embResult>>
    /\ UNCHANGED <<chatVars, svcVars, facVars, callVars, oaVars, fsVars>>

\* after a successful probe: llm_provider.list_models() comes back and the
\* endpoint answers
CheckList(outcome) ==
    /\ hcState = "listing"
    /\ hcOps' = Append(hcOps, [op |-> "list_models", outcome |-> outcome])
    /\ hcReply' = health_reply(TRUE, list_models(outcome))
    /\ hcState' = "replied"
    /\ UNCHANGED <<chatVars, svcVars, facVars, ollVars, callVars, oaVars,
                   fsVars>>

NextHealth ==
    \/ BackendFlip
    \/ \E outcome \in ProbeOutcomes(ollamaUp) : HealthCall(outcome)
    \/ \E outcome \in ProbeOutcomes(ollamaUp) : CheckProbe(outcome)
    \/ \E outcome \in ProbeOutcomes(ollamaUp) : CheckList(outcome)

SpecHealth == InitOllama /\ [][NextHealth]_vars

\* ------------------------------------------------------------------------
\* OpenAIProvider
\* ------------------------------------------------------------------------
\* what the OpenAI API does with a request that reaches it
ApiOutcomes == {"ok", "error"}

openai_call_unguarded(avail, op, outcome) ==
    IF op = "health_check"
        THEN [op |-> op, contacted |-> TRUE, raised |-> "",
              returned |-> outcome = "ok"]
    ELSE [op |-> op, contacted |-> TRUE,
          raised |-> IF outcome = "ok" THEN "" ELSE "api error",
          returned |-> outcome = "ok"]

\* one call of a method: was the client used, what was raised, and what
\* came back (for health_check the answer, else whether a result came back)
openai_call(avail, op, outcome) ==
    IF op = "health_check"
        THEN IF ~avail
                 THEN [op |-> op, contacted |-> FALSE, raised |-> "",
                       returned |-> FALSE]
             ELSE [op |-> op, contacted |-> TRUE, raised |-> "",
                   returned |-> outcome = "ok"]
    ELSE IF ~avail
             THEN [op |-> op, contacted |-> FALSE,
                   raised |-> "OpenAI provider not available",
                   returned |-> FALSE]
         ELSE [op |-> op, contacted |-> TRUE,
               raised |-> IF outcome = "ok" THEN "" ELSE "api error",
               returned |-> outcome = "ok"]

\* OpenAIProvider(): available says whether the openai package was imported
InitOpenAI ==
    /\ ollamaUp = TRUE
    /\ InitChat
    /\ InitIdleService
    /\ InitIdleFactory
    /\ InitIdleOllama
    /\ InitIdleCall
    /\ InitIdleFiles
    /\ available \in BOOLEAN
    /\ uses = <<>>

OpenAIUse(op, outcome) ==
    /\ Len(uses) < MaxUses
    /\ uses' = Append(uses, openai_call(available, op, outcome))
    /\ UNCHANGED available
    /\ UNCHANGED <<chatVars, svcVars, facVars, ollVars, callVars, hcVars,
                   fsVars>>

OpenAIChat(stream, outcome) ==
    OpenAIUse(IF stream THEN "chat_completion_stream" ELSE "chat_completion",
              outcome)

OpenAIEmbed(outcome) == OpenAIUse("embeddings", outcome)

OpenAIHealth(outcome) == OpenAIUse("health_check", outcome)

NextOpenAI ==
    \/ \E stream \in BOOLEAN, outcome \in ApiOutcomes : OpenAIChat(stream, outcome)
    \/ \E outcome \in ApiOutcomes : OpenAIEmbed(outcome)
    \/ \E outcome \in ApiOutcomes : OpenAIHealth(outcome)

SpecOpenAI == InitOpenAI /\ [][NextOpenAI]_vars

\* ------------------------------------------------------------------------
\* One chat_completion call: OllamaProvider.chat_completion handing its
\* arguments to OllamaService.chat_completion, the payload built for
\* /api/chat, and the outcome of the request or of the stream
\* ------------------------------------------------------------------------
\* messages a caller may hand over
SystemMessage == [role |-> "system", content |-> "be brief"]
UserMessage == [role |-> "user", content |-> "hi"]

\* os.getenv("OLLAMA_MODEL", "llama3")
DefaultModel == "llama3"

\* the arguments a caller may pass; temperatures are counted in tenths (7
\* stands for 0.7)
CallArgs ==
    [messages : BoundedSeq({SystemMessage, UserMessage}, MaxMessages),
     model : {OmittedText, Given("mistral")},
     temperature : {OmittedNumber} \cup {Given(t) : t \in {0, 3}},
     max_tokens : {OmittedNumber} \cup {Given(n) : n \in 0..MaxTokens},
     stream : BOOLEAN,
     system_prompt : {OmittedText, Given(""), Given(SystemPrompt)}]

\* x or default, for text
text_or(x, default) == IF x.given /\ x.value # "" THEN x.value ELSE default

\* the parameter default of the signature: temperature: float = 0.7
temperature_default(x) == IF x.given THEN x.value ELSE DefaultTemperature

\* OllamaProvider.chat_completion: the arguments it hands to the service
provider_chat_completion(a) ==
    [a EXCEPT !.model = Given(text_or(a.model, DefaultModel)),
              !.temperature = Given(temperature_default(a.temperature))]

prepend_system_prompt_always(system_prompt, msgs) ==
    IF system_prompt.given /\ system_prompt.value # ""
        THEN <<[role |-> "system", content |-> system_prompt.value]>>
    ELSE <<>>

\* "Add system prompt if provided and not already in messages": the list
\* ollama_messages starts with
prepend_system_prompt(system_prompt, msgs) ==
    IF /\ system_prompt.given /\ system_prompt.value # ""
       /\ (msgs = <<>> \/ msgs[1].role # "system")
        THEN <<[role |-> "system", content |-> system_prompt.value]>>
    ELSE <<>>

\* if max_tokens: payload["options"] = {"num_predict": max_tokens}
num_predict(max_tokens) ==
    IF max_tokens.given /\ max_tokens.value # 0
        THEN Given(max_tokens.value) ELSE OmittedNumber

\* OllamaService.chat_completion: the payload
build_payload(a) ==
    [model |-> text_or(a.model, DefaultModel),
     messages |-> prepend_system_prompt(a.system_prompt, a.messages)
                      \o a.messages,
     temperature |-> temperature_default(a.temperature),
     stream |-> a.stream,
     options |-> num_predict(a.max_tokens)]

stream_open_silent(outcome) == IF outcome = "200" THEN "open" ELSE "ended"

\* async with self.client.stream(...): response.raise_for_status()
stream_open(outcome) == IF outcome = "200" THEN "open" ELSE "raised"

InitCall ==
    /\ ollamaUp \in BOOLEAN
    /\ InitChat
    /\ InitIdleService
    /\ InitIdleFactory
    /\ InitIdleOllama
    /\ InitIdleRest

\* chat_completion is called: the payload is built; with stream the
\* generator is returned at once, else the POST is awaited
CallEnter(a) ==
    /\ callState = "off"
    /\ args' = a
    /\ payload' = build_payload(provider_chat_completion(a))
    /\ callState' = IF a.stream THEN "generator" ELSE "posting"
    /\ UNCHANGED callOutcome
    /\ UNCHANGED <<chatVars, svcVars, facVars, ollVars, hcVars, oaVars, fsVars>>

\* stream = False: the POST comes back, or fails
CallReturn(outcome, body) ==
    /\ callState = "posting"
    /\ callOutcome' = outcome
    /\ callState' = IF chat_completion(outcome, body).raised
                       THEN "raised" ELSE "returned"
    /\ UNCHANGED <<args, payload>>
    /\ UNCHANGED <<chatVars, svcVars, facVars, ollVars, hcVars, oaVars, fsVars>>

\* stream = True: the consumer asks for the first delta and the request is
\* sent
CallConnect(outcome) ==
    /\ callState = "generator"
    /\ callOutcome' = outcome
    /\ callState' = stream_open(outcome)
    /\ UNCHANGED <<args, payload>>
    /\ UNCHANGED <<chatVars, svcVars, facVars, ollVars, hcVars, oaVars, fsVars>>

\* the open stream is lost or times out: aiter_lines() raises
CallBreak(outcome) ==
    /\ callState = "open"
    /\ callOutcome' = outcome
    /\ callState' = "raised"
    /\ UNCHANGED <<args, payload>>
    /\ UNCHANGED <<chatVars, svcVars, facVars, ollVars, hcVars, oaVars, fsVars>>

\* the backend closes the reply
CallEnd ==
    /\ callState = "open"
    /\ ollamaUp
    /\ callState' = "ended"
    /\ UNCHANGED <<args, payload, callOutcome>>
    /\ UNCHANGED <<chatVars, svcVars, facVars, ollVars, hcVars, oaVars, fsVars>>

NextCall ==
    \/ BackendFlip
    \/ \E a \in CallArgs : CallEnter(a)
    \/ \E o \in PostOutcomes(ollamaUp), body \in ReplyBodies : CallReturn(o, body)
    \/ \E o \in PostOutcomes(ollamaUp) : CallConnect(o)
    \/ \E o \in {"error", "timeout"} : CallBreak(o)
    \/ CallEnd

SpecCall == InitCall /\ [][NextCall]_vars

\* ------------------------------------------------------------------------
\* TelemetryRemover (scripts/remove_telemetry.py)
\* A file is the set of the kinds of text it holds: "pkg" a dependency line
\* of an analytics package, "envvar" a declaration of an analytics key,
\* "init" an analytics initialisation, "import" and "call" an analytics
\* import and method call, "gaps" a run of blank lines, and "dep", "code",
\* "stub" text the script leaves alone.
\* ------------------------------------------------------------------------
\* what the file at p holds before the run: with the telemetry the script
\* looks for, or (plain) without it
InitialContent(p, plain) ==
    IF p = "app/pubspec.yaml"
        THEN IF plain THEN {"dep"} ELSE {"dep", "pkg"}
    ELSE IF p = "app/lib/pages/home.dart"
        THEN IF plain THEN {"code", "gaps"} ELSE {"code", "import", "call"}
    ELSE IF p = "app/lib/main.dart" THEN {"code", "init", "import"}
    ELSE IF p \in {"app/lib/env/dev_env.dart", "app/lib/env/prod_env.dart"}
        THEN {"code", "envvar"}
    ELSE IF p = "app/lib/services/privacy_analytics.dart" THEN {"code"}
    ELSE IF p = "app/lib/services" THEN {}
    ELSE {"code", "import", "call"}

\* the run so far: the files, self.modified_files and self.removed_count
Progress == [fs |-> fs, modified_files |-> modified_files,
             removed_count |-> removed_count]

remove_from_pubspec(st, dry) ==
    LET p == "app/pubspec.yaml"
    IN  IF ~st.fs[p].exists \/ "pkg" \notin st.fs[p].content THEN st
        ELSE [fs |-> IF dry THEN st.fs
                     ELSE [st.fs EXCEPT ![p].content = @ \ {"pkg"}],
              modified_files |-> Append(st.modified_files, p),
              removed_count |-> st.removed_count + 1]

delete_service_files(st, dry) ==
    LET files == <<"app/lib/services/mixpanel.dart",
                   "app/lib/services/intercom.dart",
                   "app/lib/services/instabug.dart">>
        after[i \in 0..Len(files)] ==
            IF i = 0 THEN st
            ELSE IF ~after[i - 1].fs[files[i]].exists THEN after[i - 1]
            ELSE [fs |-> IF dry THEN after[i - 1].fs
                         ELSE [after[i - 1].fs EXCEPT ![files[i]] = NoFile],
                  modified_files |->
                      Append(after[i - 1].modified_files, files[i]),
                  removed_count |-> after[i - 1].removed_count + 1]
    IN  after[Len(files)]

\* the file at p rewritten without the kinds of text in gone, when it holds
\* any of them; counted tells how many removals are added to removed_count
rewrite_file(st, dry, p, gone, counted) ==
    IF ~st.fs[p].exists \/ st.fs[p].content \cap gone = {} THEN st
    ELSE [fs |-> IF dry THEN st.fs
                 ELSE [st.fs EXCEPT ![p].content = @ \ gone],
          modified_files |-> Append(st.modified_files, p),
          removed_count |->
              st.removed_count + Cardinality(st.fs[p].content \cap counted)]

clean_environment_files(st, dry) ==
    rewrite_file(rewrite_file(st, dry, "app/lib/env/dev_env.dart",
                              {"envvar"}, {}),
                 dry, "app/lib/env/prod_env.dart", {"envvar"}, {})

clean_main_dart(st, dry) ==
    rewrite_file(st, dry, "app/lib/main.dart", {"init"}, {})

remove_imports_from_file(st, dry, p) ==
    rewrite_file(st, dry, p, {"import", "gaps"}, {"import"})

remove_method_calls_from_file(st, dry, p) ==
    rewrite_file(st, dry, p, {"call", "gaps"}, {"call"})

\* run()'s step 5: every .dart file under app/lib, when app/lib exists
remove_imports_and_calls(st, dry) ==
    LET files == <<"app/lib/env/dev_env.dart", "app/lib/env/prod_env.dart",
                   "app/lib/main.dart", "app/lib/pages/home.dart",
                   "app/lib/services/instabug.dart",
                   "app/lib/services/intercom.dart",
                   "app/lib/services/mixpanel.dart",
                   "app/lib/services/privacy_analytics.dart">>
        after[i \in 0..Len(files)] ==
            IF i = 0 THEN st
            ELSE remove_method_calls_from_file(
                     remove_imports_from_file(after[i - 1], dry, files[i]),
                     dry, files[i])
    IN  after[Len(files)]

create_privacy_stub_unguarded(st, dry) ==
    [st EXCEPT !.fs = [@ EXCEPT
        !["app/lib/services"] = [exists |-> TRUE, content |-> {}],
        !["app/lib/services/privacy_analytics.dart"] =
            [exists |-> TRUE, content |-> {"stub"}]]]

create_privacy_stub(st, dry) ==
    IF dry THEN st
    ELSE [st EXCEPT !.fs = [@ EXCEPT
             !["app/lib/services"] = [exists |-> TRUE, content |-> {}],
             !["app/lib/services/privacy_analytics.dart"] =
                 [exists |-> TRUE, content |-> {"stub"}]]]

\* TelemetryRemover(dry_run) in a working tree; a directory that holds a
\* file exists
InitTelemetry ==
    /\ ollamaUp = TRUE
    /\ InitChat
    /\ InitIdleService
    /\ InitIdleFactory
    /\ InitIdleOllama
    /\ InitIdleCall
    /\ InitIdleOpenAI
    /\ dry_run \in BOOLEAN
    /\ \E present \in SUBSET Paths,
          plain \in SUBSET {"app/pubspec.yaml", "app/lib/pages/home.dart"} :
          /\ plain \subseteq present
          /\ present \cap {"app/lib/services/mixpanel.dart",
                           "app/lib/services/intercom.dart",
                           "app/lib/services/instabug.dart",
                           "app/lib/services/privacy_analytics.dart"} # {}
                => "app/lib/services" \in present
          /\ fs = [p \in Paths |->
                      IF p \in present
                          THEN [exists |-> TRUE,
                                content |-> InitialContent(p, p \in plain)]
                      ELSE NoFile]
    /\ fs0 = fs
    /\ stage = 0
    /\ modified_files = <<>>
    /\ removed_count = 0

\* step n of run() turns the run so far into next
RunStep(n, next) ==
    /\ stage = n - 1
    /\ stage' = n
    /\ fs' = next.fs
    /\ modified_files' = next.modified_files
    /\ removed_count' = next.removed_count
    /\ UNCHANGED <<dry_run, fs0>>
    /\ UNCHANGED <<chatVars, svcVars, facVars, ollVars, callVars, hcVars,
                   oaVars>>

RemoveFromPubspec == RunStep(1, remove_from_pubspec(Progress, dry_run))

DeleteServiceFiles == RunStep(2, delete_service_files(Progress, dry_run))

CleanEnvironmentFiles ==
    RunStep(3, clean_environment_files(Progress, dry_run))

CleanMainDart == RunStep(4, clean_main_dart(Progress, dry_run))

RemoveImportsAndCalls ==
    RunStep(5, IF \E p \in Paths : fs[p].exists /\ p # "app/pubspec.yaml"
                   THEN remove_imports_and_calls(Progress, dry_run)
               ELSE Progress)

CreatePrivacyStub == RunStep(6, create_privacy_stub(Progress, dry_run))

NextTelemetry ==
    \/ RemoveFromPubspec
    \/ DeleteServiceFiles
    \/ CleanEnvironmentFiles
    \/ CleanMainDart
    \/ RemoveImportsAndCalls
    \/ CreatePrivacyStub

SpecTelemetry == InitTelemetry /\ [][NextTelemetry]_vars

\* ------------------------------------------------------------------------
\* Properties
\* ------------------------------------------------------------------------
\* the messages of r's chat_session that r made
Mine(r) == SelectSeq(chat_session[r].messages, LAMBDA m : m.id = r)

\* the messages of r's chat_session that were stored before r arrived
Prior(r) == SelectSeq(chat_session[r].messages, LAMBDA m : m.id # r)

\* the last message of r's chat_session, as r hands it to the store
LastSaved(r) == chat_session[r].messages[Len(chat_session[r].messages)]

\* r left nothing in the store
NothingStoredBy(r) ==
    \A i \in 1..Len(db) :
        /\ db[i].id # r
        /\ \A j \in 1..Len(db[i].messages) : db[i].messages[j].id # r

\* C1: on both endpoints, a request whose health check returned false is
\* rejected with the unavailable status (503), and at that moment it has
\* read or created no session, made no turn, issued no completion or stream
\* call, and left nothing in the session store.
C1_UnavailableRejectsBeforeAnyEffect ==
    \A r \in Requests :
        probe[r] = "unavailable" =>
            /\ pc[r] = "rejected"
            /\ response[r].status = 503
            /\ ops[r] = <<>>
            /\ chat_session[r] = NoSession
            /\ messages[r] = <<>>
            /\ ~httpOpen[r]
            /\ NothingStoredBy(r)

\* both endpoints have rejected a request
C1_Witness ==
    \E r1, r2 \in Requests :
        /\ pc[r1] = "rejected" /\ endpoint[r1] = "send"
        /\ pc[r2] = "rejected" /\ endpoint[r2] = "stream"
        /\ probe[r1] = "unavailable" /\ probe[r2] = "unavailable"

\* C2: when the backend stream fails after the fragments f1..fk, the caller
\* has received f1..fk in order before the fallback notice is sent, then
\* receives the notice; the assistant turn saved is f1 ++ ... ++ fk ++ notice
\* and the request ends with status 200.
C2_StreamFailureKeepsPartialTextAndNotice ==
    \A r \in Requests :
        (endpoint[r] = "stream" /\ failed[r]) =>
            /\ pc[r] \in {"sending", "streaming", "done", "abandoned"}
            /\ pc[r] = "sending" =>
                   (received[r] = emitted[r] /\ chunk[r] = StreamFallback)
            /\ pc[r] \in {"streaming", "done"} =>
                   received[r] = emitted[r] \o <<StreamFallback>>
            /\ pc[r] = "done" =>
                   /\ response[r].status = 200
                   /\ LastSaved(r) =
                        Message(r, "ai", Concat(emitted[r]) \o StreamFallback)

\* the stream failed after "Hel" and "lo" and "Hello" + notice was saved
C2_Witness ==
    \E r \in Requests :
        /\ pc[r] = "done" /\ endpoint[r] = "stream" /\ failed[r]
        /\ emitted[r] = <<"Hel", "lo">>
        /\ LastSaved(r).text = "Hello" \o StreamFallback

\* C3: on both paths the message list handed to the provider is one system
\* message, then the last HistoryWindow turns stored before the request
\* (oldest first), then the new user turn once, as the last element.
C3_PromptIsSystemHistoryThenNewTurn ==
    \A r \in Requests :
        messages[r] # <<>> =>
            LET prior == Prior(r)
                k == IF Len(prior) <= HistoryWindow
                        THEN Len(prior) ELSE HistoryWindow
            IN  /\ Len(messages[r]) = k + 2
                /\ messages[r][1].role = "system"
                /\ \A i \in 2..Len(messages[r]) :
                       messages[r][i].role # "system"
                /\ \A i \in 1..k :
                       /\ (k + 2 <= Len(messages[r])) =>
                            messages[r][1 + i] =
                               [role |-> Role(prior[Len(prior) - k + i]),
                                content |-> prior[Len(prior) - k + i].text]
                /\ messages[r][Len(messages[r])] =
                       [role |-> "user", content |-> text[r]]

WellFormed(line) == line.kind \in {"object", "nonobject"}

\* C5: a frame that is not well-formed JSON is skipped and no frame ends the
\* streamed sequence: at every point the deltas produced are as many as the
\* well-formed non-empty frames read, in the same order.
C5_OneDeltaPerWellFormedFrame ==
    svc \in {"open", "closed", "raised"} =>
        LET read == SubSeq(reply, 1, pos)
            good == SelectSeq(read, WellFormed)
        IN  /\ svc # "raised"
            /\ Len(deltas) = Len(good)
            /\ \A i \in 1..Len(deltas) :
                   i <= Len(good) => deltas[i].content = LineText(good[i])

\* the chunk generate() has yielded and the caller has not received yet
Pending(r) == IF chunk[r] # "" THEN <<chunk[r]>> ELSE <<>>

\* C6: in one streamed reply the chunks reach the caller in the order of the
\* backend's frames, one chunk per frame with text, none merged or moved, and
\* a chunk is sent to the caller before the next frame is read: what the
\* caller has received, plus the one chunk being sent, is exactly the texts
\* of the frames read so far (followed by the notice once the stream failed).
C6_ChunksFollowFramesInOrder ==
    \A r \in Requests :
        endpoint[r] = "stream" =>
            /\ received[r] \o Pending(r) =
                  emitted[r] \o (IF failed[r] THEN <<StreamFallback>> ELSE <<>>)
            /\ pc[r] = "sending" => chunk[r] # ""
            /\ pc[r] = "streaming" => chunk[r] = ""

\* a second frame was read only after the first chunk had reached the caller
C6_Witness ==
    \E r \in Requests :
        /\ pc[r] = "sending"
        /\ ~failed[r]
        /\ received[r] = <<"Hel">>
        /\ chunk[r] = "lo"

\* C7: in sendMessage, once the health gate is passed, a failed completion
\* call (the backend may have gone away after the probe) still ends with
\* status 200 and the fixed fallback text as the reply, and the user turn and
\* the assistant turn with that reply are both saved.
C7_SendFailureDegradesToFallback ==
    \A r \in Requests :
        (endpoint[r] = "send" /\ pc[r] = "done") =>
            /\ probe[r] = "healthy"
            /\ response[r].status = 200
            /\ failed[r] => response[r].text = SendFallback
            /\ Mine(r) = <<Message(r, "human", text[r]),
                           Message(r, "ai", response[r].text)>>
            /\ Len(chat_session[r].messages) >= 2
            /\ LastSaved(r) = Message(r, "ai", response[r].text)

\* a completion failed with the backend gone after a healthy probe
C7_Witness ==
    \E r \in Requests :
        /\ endpoint[r] = "send" /\ pc[r] = "done"
        /\ failed[r]
        /\ ~ollamaUp
        /\ response[r].text = SendFallback

\* positions of a call in the calls r has issued
At(r, op) == {i \in 1..Len(ops[r]) : ops[r][i] = op}

\* C8: the streaming path saves the user turn to the store before the
\* stream call is issued; the non-streaming path saves nothing until the
\* completion call is over and then the user turn and the assistant turn in
\* that order; a request that is over has added one user turn and at most
\* one assistant turn.
C8_PersistenceOrder ==
    \A r \in Requests :
        /\ (endpoint[r] = "stream" /\ At(r, "stream") # {}) =>
              \E i \in At(r, "update") : \A j \in At(r, "stream") : i < j
        /\ (endpoint[r] = "stream"
              /\ pc[r] \in {"respond", "streaming", "sending", "abandoned"}) =>
              Mine(r) = <<Message(r, "human", text[r])>>
        /\ (endpoint[r] = "send" /\ pc[r] = "await_complete") =>
              /\ At(r, "update") = {}
              /\ Mine(r) = <<>>
              /\ \A i \in 1..Len(db) : \A j \in 1..Len(db[i].messages) :
                     db[i].messages[j].id # r
        /\ pc[r] = "done" =>
              /\ Len(Mine(r)) = 2
              /\ Mine(r)[1] = Message(r, "human", text[r])
              /\ Mine(r)[2].sender = "ai"
              /\ ops[r][Len(ops[r])] = "update"

\* a streamed and a non-streamed request are both over
C8_Witness ==
    \E r1, r2 \in Requests :
        /\ endpoint[r1] = "stream" /\ pc[r1] = "done"
        /\ endpoint[r2] = "send" /\ pc[r2] = "done"

\* C9: when the caller abandons a streamed reply after some fragments, the
\* backend HTTP stream is released and the text accumulated so far is saved
\* as the assistant turn, as after a failure of the backend stream.
C9_AbandonedStreamSavesPartialText ==
    \A r \in Requests :
        (pc[r] = "abandoned" /\ received[r] # <<>>) =>
            /\ ~httpOpen[r]
            /\ LastSaved(r) = Message(r, "ai", full_response[r])

\* C10: when a streamed reply is consumed to its end, one assistant turn is
\* saved and its text is the chunks sent to the caller, joined in order.
C10_SavedTextIsWhatWasForwarded ==
    \A r \in Requests :
        (endpoint[r] = "stream" /\ pc[r] = "done") =>
            /\ SelectSeq(Mine(r), LAMBDA m : m.sender = "ai")
                  = <<Message(r, "ai", Concat(received[r]))>>
            /\ LastSaved(r) = Message(r, "ai", Concat(received[r]))

\* a reply of two chunks was consumed to its normal end
C10_Witness ==
    \E r \in Requests :
        /\ endpoint[r] = "stream" /\ pc[r] = "done"
        /\ ~failed[r]
        /\ received[r] = <<"Hel", "lo">>

\* s is an initial part of t
IsPrefix(s, t) == Len(s) <= Len(t) /\ s = SubSeq(t, 1, Len(s))

\* C11: the core only appends to a session's history: at every update of the
\* session store, the turn sequence a session held before the update is a
\* prefix of the one it holds after; no stored turn is removed, reordered or
\* changed.
C11_StoreUpdatesOnlyAppend ==
    [][\A i \in 1..Len(db) :
          /\ i <= Len(db')
          /\ db'[i].id = db[i].id
          /\ IsPrefix(db[i].messages, db'[i].messages)]_vars

\* the factory calls of kind op made so far, by position in the log
CallsOf(op) == {i \in 1..Len(calls) : calls[i].op = op}

\* C12: create_provider with a name that is not registered raises the
\* unknown-provider error and constructs nothing; with no name and no
\* LLM_PROVIDER in the environment it constructs the provider registered as
\* "ollama"; a name given by the caller is used whatever LLM_PROVIDER says.
C12_CreateResolvesNameThenEnvThenOllama ==
    /\ Len(instances) = Cardinality({i \in 1..Len(calls) : calls[i].built})
    /\ \A i \in CallsOf("create") :
          LET c == calls[i]
              name == IF c.arg # "" THEN c.arg
                      ELSE IF c.env = Unset THEN "ollama" ELSE c.env
          IN  IF name \in DOMAIN c.reg
              THEN /\ ~c.raised /\ c.built
                   /\ c.cls = c.reg[name]
                   /\ instances[c.ret] = c.reg[name]
              ELSE c.raised /\ ~c.built /\ c.ret = 0

\* with LLM_PROVIDER = "openai": an unknown name was refused, no name gave
\* the configured provider and the name "ollama" gave the Ollama provider
C12_Witness ==
    /\ LLM_PROVIDER = "openai"
    /\ \E i, j, k \in CallsOf("create") :
          /\ calls[i].arg = "bogus" /\ calls[i].raised
          /\ calls[j].arg = "" /\ calls[j].cls = "OpenAIProvider"
          /\ calls[k].arg = "ollama" /\ calls[k].cls = "OllamaProvider"
          /\ Len(instances) = 2

\* C13: in a run of get_default_llm_provider and create_provider calls (no
\* set_default_llm_provider), get_default_llm_provider constructs at most one
\* provider and every later call returns that same instance; every
\* create_provider call that returns gives a new instance, distinct from the
\* cached default and from every instance returned before.
C13_DefaultIsCachedAndCreateIsFresh ==
    CallsOf("set_default") = {} =>
        /\ Cardinality({i \in CallsOf("get_default") : calls[i].built}) <= 1
        /\ \A i, j \in CallsOf("get_default") :
              (i < j /\ ~calls[i].raised) =>
                  /\ ~calls[j].raised /\ ~calls[j].built
                  /\ calls[j].ret = calls[i].ret
        /\ \A j \in CallsOf("create") :
              ~calls[j].raised =>
                  /\ calls[j].built
                  /\ calls[j].ret # calls[j].dflt
                  /\ \A i \in 1..(j - 1) : calls[i].ret # calls[j].ret

\* the default was constructed, an explicit provider was created, and the
\* default was asked for again
C13_Witness ==
    /\ Len(calls) = 3
    /\ calls[1].op = "get_default" /\ calls[1].built
    /\ calls[2].op = "create" /\ calls[2].arg = "ollama" /\ calls[2].ret = 2
    /\ calls[3].op = "get_default" /\ calls[3].ret = 1

\* the class registered for name when call i was made: that of the latest
\* register_provider call before it, else the built-in one, else none ("")
RegisteredAt(name, i) ==
    LET js == {j \in CallsOf("register") : j < i /\ calls[j].arg = name}
    IN  IF js # {}
        THEN calls[CHOOSE j \in js : \A k \in js : k <= j].cls
        ELSE IF name \in DOMAIN BuiltinProviders
             THEN BuiltinProviders[name] ELSE ""

\* C14: after any register_provider calls, create_provider(name) constructs
\* the class of the most recent registration of that name (a built-in name
\* included); names that were not registered again keep their class.
C14_LatestRegistrationWins ==
    \A i \in CallsOf("create") :
        calls[i].arg # "" =>
            LET cls == RegisteredAt(calls[i].arg, i)
            IN  IF cls = ""
                THEN calls[i].raised
                ELSE /\ ~calls[i].raised
                     /\ calls[i].cls = cls
                     /\ instances[calls[i].ret] = cls

\* "ollama" was registered again with another class: creating "ollama"
\* gave that class and creating "openai" still gave the OpenAI provider
C14_Witness ==
    /\ Len(calls) = 3
    /\ calls[1].op = "register" /\ calls[1].arg = "ollama"
    /\ calls[1].cls = "CustomProvider"
    /\ calls[2].op = "create" /\ calls[2].arg = "ollama"
    /\ calls[2].cls = "CustomProvider"
    /\ calls[3].op = "create" /\ calls[3].arg = "openai"
    /\ calls[3].cls = "OpenAIProvider"

\* what embeddings() returns for the text t alone when its request succeeds
EmbeddingAlone(t) ==
    embeddings_return(TRUE, <<embedding_for("vector", t)>>).vectors[1]

\* C15: when every embedding request succeeds, embeddings() on one string
\* returns one vector, not wrapped in a list; on a list of k strings it
\* returns a list of exactly k vectors in the order of the input, the i-th
\* being what embeddings() returns for the i-th string alone.
C15_EmbeddingsShapeFollowsInput ==
    (embState = "returned" /\ \A i \in 1..Len(embReplies) : embReplies[i] = "vector") =>
        IF embInput.single
        THEN /\ ~embResult.wrapped
             /\ embResult.vectors = <<BackendEmbedding(embInput.texts[1])>>
        ELSE /\ embResult.wrapped
             /\ Len(embResult.vectors) = Len(embInput.texts)
             /\ \A i \in 1..Len(embInput.texts) :
                   embResult.vectors[i] = EmbeddingAlone(embInput.texts[i])

\* a list of two different strings was embedded without a failure
C15_Witness ==
    /\ embState = "returned"
    /\ embInput = [single |-> FALSE, texts |-> <<"hi", "yo">>]
    /\ embReplies = <<"vector", "vector">>
    /\ embResult.vectors = <<BackendEmbedding("hi"), BackendEmbedding("yo")>>

\* outcomes of an embedding request that raise inside the try block
EmbedFailures == {"500", "malformed", "error", "timeout"}

\* C16: when embeddings() is given a list, a request that fails neither
\* ends the loop nor raises: embeddings() returns a list as long as the
\* input, in its order, with the all-zero vector of 384 components at each
\* failed position and the backend's vector at each position that succeeded.
C16_FailedTextGetsZeroVector ==
    /\ Len(embReplies) = embPos /\ Len(embeddings) = embPos
    /\ (embState = "returned" /\ ~embInput.single) =>
          /\ embResult.wrapped
          /\ Len(embReplies) = Len(embInput.texts)
          /\ Len(embResult.vectors) = Len(embInput.texts)
          /\ \A i \in 1..Len(embInput.texts) :
                /\ embReplies[i] \in EmbedFailures =>
                      /\ Len(embResult.vectors[i]) = 384
                      /\ \A k \in 1..384 : embResult.vectors[i][k] = 0
                /\ embReplies[i] = "vector" =>
                      embResult.vectors[i] = BackendEmbedding(embInput.texts[i])

\* the first of two requests failed and the second succeeded
C16_Witness ==
    /\ embState = "returned"
    /\ embInput = [single |-> FALSE, texts |-> <<"hi", "yo">>]
    /\ embReplies = <<"500", "vector">>
    /\ embResult.vectors = <<ZeroVector, BackendEmbedding("yo")>>

\* statuses of GET /api/tags that are a success (2xx)
Successful == {"200", "204"}

ObjectsRead == SelectSeq(SubSeq(reply, 1, pos), LAMBDA l : l.kind = "object")

\* what stream_chat_message_local does with the delta d of the provider
Consumed(d) ==
    stream_chat_message_local([act |-> "yield", content |-> d.content,
                               finish |-> d.finish_reason # "null"])

\* C18: the deltas of the streamed call are those of the JSON object frames
\* read, in order; the delta of a frame has a finish_reason other than null
\* exactly when the frame carries done, and a frame with no text and no done
\* yields nothing to the consumer of the stream: its delta has empty content
\* and null finish_reason and stream_chat_message_local drops it.
C18_EmptyFramesDroppedFinishIffDone ==
    svc \in {"open", "closed", "raised"} =>
        /\ Len(deltas) = Len(ObjectsRead)
        /\ \A i \in 1..Len(deltas) :
              i <= Len(ObjectsRead) =>
                  LET frame == ObjectsRead[i]
                  IN  /\ (deltas[i].finish_reason # "null") = frame.done
                      /\ (LineText(frame) = "" /\ ~frame.done) =>
                            /\ deltas[i] = [content |-> "", finish_reason |-> "null"]
                            /\ ~Consumed(deltas[i]).yields
                      /\ LineText(frame) # "" =>
                            Consumed(deltas[i]).chunk = LineText(frame)

\* a frame with text, a frame with neither text nor done and the done frame
\* were read
C18_Witness ==
    /\ svc = "closed"
    /\ reply = <<TextLine("Hel"), BareLine, DoneLine>>
    /\ Len(deltas) = 3
    /\ deltas[3].finish_reason = "stop"

\* the backend signalled completion: a frame read so far carries done
Completed == \E i \in 1..Len(ObjectsRead) : ObjectsRead[i].done

\* C19: the streamed call stops at the backend's completion signal or at the
\* close of the connection: no delta follows a delta whose finish_reason is
\* not null, and when the stream has ended after the backend signalled
\* completion, the last delta carries a finish_reason other than null.
C19_StreamEndsAtCompletionSignal ==
    svc \in {"open", "closed"} =>
        /\ \A i \in 1..(Len(deltas) - 1) : deltas[i].finish_reason = "null"
        /\ (svc = "closed" /\ Completed) =>
              /\ deltas # <<>>
              /\ deltas[Len(deltas)].finish_reason # "null"

\* C20: for every reply body that is a JSON object, _format_chat_response
\* does not raise and the usage it makes has total_tokens = prompt_tokens +
\* completion_tokens, each field a number: the backend's counter when it
\* gives one, zero when it leaves the counter out or does not know it (null).
C20_UsageIsAdditiveAndNeverNull ==
    (completion.called /\ Aggregate(reply).kind = "object") =>
        LET usage == completion.usage
            p == completion.prompt_eval_count
            e == completion.eval_count
        IN  /\ ~usage.raised
            /\ ~completion.raised
            /\ usage.total_tokens = usage.prompt_tokens + usage.completion_tokens
            /\ usage.prompt_tokens = IF p.present /\ ~p.null THEN p.value ELSE 0
            /\ usage.completion_tokens = IF e.present /\ ~e.null THEN e.value ELSE 0

\* the moves of a request flow: arrival and health gate, then either the
\* buffered path (prompt built and completion dispatched, completion awaited,
\* turns saved) or the streamed path (reply accepted, prompt built and stream
\* opened, chunks read and sent, assistant turn saved); "rejected" and
\* "abandoned" are the failed ends, "done" the normal one
Flow ==
    {<<"idle", "health">>,
     <<"health", "rejected">>, <<"health", "await_complete">>,
     <<"health", "respond">>,
     <<"await_complete", "done">>,
     <<"respond", "streaming">>, <<"streaming", "sending">>,
     <<"sending", "streaming">>, <<"streaming", "done">>,
     <<"respond", "abandoned">>, <<"streaming", "abandoned">>,
     <<"sending", "abandoned">>}

\* the ends of a request flow
Ended == {"done", "rejected", "abandoned"}

\* the backend call of r (completion or stream) is in ops[r] at position i
Dispatched(r, i) == ops[r][i] \in {"complete", "stream"}

CallFailed == callOutcome \in {"error", "timeout", "500"}

\* C22: when the request of a completion call fails in transport, times out
\* or is answered with a status outside 2xx, the call raises to its caller
\* and returns no completion; a streamed call raises to the consumer of the
\* deltas and does not end the stream as if it were complete.
C22_FailureIsRaised ==
    /\ CallFailed => callState = "raised"
    /\ callState \in {"returned", "open", "ended"} => callOutcome = "200"

\* a streamed call was refused by the backend and the consumer got the error
C22_Witness ==
    /\ args.stream
    /\ callOutcome = "500"
    /\ callState = "raised"

\* C24: the payload sent to the backend carries the caller's model,
\* temperature and token limit unchanged when the caller supplies them; an
\* omitted model becomes the provider's default model, an omitted
\* temperature becomes 0.7, and an omitted token limit sends no cap.
C24_DefaultsAndPassThrough ==
    callState # "off" =>
        /\ payload.model =
              IF args.model.given THEN args.model.value ELSE DefaultModel
        /\ payload.temperature =
              IF args.temperature.given THEN args.temperature.value
              ELSE DefaultTemperature
        /\ payload.options =
              IF args.max_tokens.given THEN Given(args.max_tokens.value)
              ELSE OmittedNumber

\* the caller has a system prompt to prepend
PromptGiven == args.system_prompt.given /\ args.system_prompt.value # ""

C23_HealthyOnlyAfterOwnProbe ==
    hcState = "replied" =>
        /\ hcOps[1].op = "health_check"
        /\ hcReply.code = 200 =>
              /\ hcOps[1].outcome \in Successful
              /\ hcReply.status = "healthy"
              /\ hcReply.provider = "ollama"
              /\ Len(hcOps) = 2
              /\ hcOps[2].op = "list_models"
              /\ hcReply.models = list_models(hcOps[2].outcome)
        /\ hcOps[1].outcome \notin Successful =>
              /\ hcReply.code = 503
              /\ hcReply.models = <<>>
              /\ Len(hcOps) = 1

\* the second probe could not reach the backend, and the endpoint answered
\* unavailable
C23_Witness ==
    /\ hcState = "replied"
    /\ health.calls = 2
    /\ hcOps[1].outcome = "error"
    /\ hcReply.code = 503

\* C25: on an OpenAIProvider built without the openai package, chat
\* completion (streamed or not) and embeddings raise the provider's
\* not-available error and health_check answers false without raising; none
\* of them uses the client.
C25_UnavailableProviderContactsNothing ==
    ~available =>
        \A i \in 1..Len(uses) :
            /\ ~uses[i].contacted
            /\ ~uses[i].returned
            /\ uses[i].raised =
                  IF uses[i].op = "health_check" THEN ""
                  ELSE "OpenAI provider not available"

\* an unavailable provider was asked for a streamed completion, an embedding
\* and its health
C25_Witness ==
    /\ ~available
    /\ Len(uses) = 3
    /\ uses[1].op = "chat_completion_stream"
    /\ uses[2].op = "embeddings"
    /\ uses[3].op = "health_check"

\* the stored session holds the user turn of r and, after it, the assistant
\* turn of r
TurnsStored(r) ==
    /\ db # <<>>
    /\ LET stored == db[1].messages
       IN  \E i, j \in 1..Len(stored) :
              /\ i < j
              /\ stored[i] = Message(r, "human", text[r])
              /\ stored[j].id = r
              /\ stored[j].sender = "ai"

\* C26: whatever the interleaving of two requests on the same session, once
\* both are done the stored session holds the user turn and the assistant
\* turn of each, the assistant turn after the user turn of its request; no
\* request's session update drops a turn the other has written.
C26_ConcurrentRequestsKeepAllTurns ==
    (\A r \in Requests : pc[r] = "done") =>
        \A r \in Requests : TurnsStored(r)

\* positions of the store call op in what request r has done
OpsAt(r, op) == {i \in 1..Len(ops[r]) : ops[r][i] = op}

\* C27: a session is created only when the store holds none, and a request
\* that creates one does so before it stores any turn; over all requests, in
\* any order or interleaving, at most one session is created.
C27_OneSessionCreatedBeforeTurns ==
    /\ [][Len(db') > Len(db) => db = <<>> /\ Len(db') = 1]_vars
    /\ [](/\ Len(db) <= 1
          /\ Cardinality({r \in Requests : OpsAt(r, "create") # {}}) <= 1
          /\ \A r \in Requests :
                /\ Cardinality(OpsAt(r, "create")) <= 1
                /\ \A i \in OpsAt(r, "create"), j \in OpsAt(r, "update") : i < j
                /\ chat_session[r] # NoSession => db # <<>>)

\* two requests have stored their turns; the first of them found no session
\* and created it, the other found that one
C27_Witness ==
    \E r1, r2 \in Requests :
        /\ pc[r1] = "done" /\ pc[r2] = "done"
        /\ OpsAt(r1, "create") # {} /\ OpsAt(r1, "update") # {}
        /\ OpsAt(r2, "create") = {} /\ OpsAt(r2, "update") # {}
        /\ Len(db) = 1

\* C29: with dry_run set, no step of run() writes, deletes or creates a file:
\* after every step, and when the run is over, the files are those that were
\* there before it.
C29_DryRunLeavesFilesAlone == dry_run => fs = fs0

\* a dry run is over; it found a package to remove, a service file to
\* delete and imports to strip, reported them, and no stub file exists
C29_Witness ==
    /\ dry_run
    /\ stage = 6
    /\ removed_count >= 3
    /\ Len(modified_files) >= 3
    /\ modified_files[1] = "app/pubspec.yaml"
    /\ fs["app/lib/services/mixpanel.dart"].exists
    /\ ~fs["app/lib/services/privacy_analytics.dart"].exists

====
